---- MODULE Spec2Model ----
(***************************************************************************)
(* Model of opt_einsum_fx/_opt_ein.py: optimize_einsums_graph, the pass    *)
(* that walks a torch.fx graph, expands every einsum call-site whose       *)
(* operands carry a shape into the contraction chain opt_einsum chooses,   *)
(* and copies every other node into a fresh graph.                         *)
(***************************************************************************)
EXTENDS Integers, Sequences, FiniteSets, TLC

VARIABLES graph, new_graph, env, node, pc, error, result, warned, origin,
          path_calls, contract_calls

(***************************************************************************)
(* graph          the input fx.Graph, a sequence of nodes                  *)
(* new_graph      the graph built by the pass (line 51)                    *)
(* env            input node -> node of new_graph (line 54)                *)
(* node           position in graph of the node the loop visits next       *)
(* pc             "running", "returned" or "raised"                        *)
(* error          the exception that left the function, or "none"          *)
(* result         the graph returned (line 105)                            *)
(* warned         the einsum nodes warnings.warn was called for, in order  *)
(* origin         history: for each node of new_graph, the input node      *)
(*                whose visit appended it                                  *)
(* path_calls     history: nodes opt_einsum.contract_path was called for   *)
(* contract_calls history: nodes _core_contract was called for             *)
(***************************************************************************)
vars == <<graph, new_graph, env, node, pc, error, result, warned, origin,
          path_calls, contract_calls>>

(***************************************************************************)
(* Bounds of the generated input graphs.                                   *)
(***************************************************************************)
MaxNodes == 3

MaxOperands == 1

(***************************************************************************)
(* Nodes and arguments.  An argument is a literal or a reference to a node *)
(* of one of the two graphs; a node of a graph is named by its position.   *)
(***************************************************************************)
Lit(s) == [isNode |-> FALSE, graph |-> "", ref |-> 0, lit |-> s]

Ref(g, n) == [isNode |-> TRUE, graph |-> g, ref |-> n, lit |-> ""]

InNode(op, target, args, shape) ==
    [op |-> op, target |-> target, args |-> args, shape |-> shape]

OutNode(op, target, args) == [op |-> op, target |-> target, args |-> args]

EINSUM_FUNCS == {"torch.functional.einsum", "torch.einsum"}

IsEinsum(n) == n.op = "call_function" /\ n.target \in EINSUM_FUNCS

\* node.args[1:]
Operands(n) == SubSeq(n.args, 2, Len(n.args))

\* variant: any node operand counts as annotated
HasShapeAnyNode(g, a) == a.isNode

\* a.shape raises AttributeError for an operand without the attribute
HasShape(g, a) == a.isNode /\ g[a.ref].shape

\* variant: one annotated operand is enough
ShapesReadAny(g, n) == \E k \in 1..Len(Operands(n)) : HasShape(g, Operands(n)[k])

\* the try block of the shape read ends without AttributeError
ShapesRead(g, n) == \A k \in 1..Len(Operands(n)) : HasShape(g, Operands(n)[k])

\* the node-valued arguments of a node
NodeArgs(n) == {n.args[k].ref : k \in {j \in 1..Len(n.args) : n.args[j].isNode}}

(***************************************************************************)
(* The input graphs: the traced functions of the test module under every   *)
(* pattern of shape annotation, and all topologically ordered graphs of at *)
(* most MaxNodes nodes built from placeholders, einsum calls of at most    *)
(* MaxOperands operands and one-argument calls.                            *)
(***************************************************************************)
Shapes(n) == [1..n -> BOOLEAN]

einmatmul(s) ==
    << InNode("placeholder", "x", <<>>, s[1]),
       InNode("placeholder", "y", <<>>, s[2]),
       InNode("call_function", "torch.einsum",
              <<Lit("ij,jk->ik"), Ref("graph", 1), Ref("graph", 2)>>, s[3]),
       InNode("output", "output", <<Ref("graph", 3)>>, s[4]) >>

fusable(s) ==
    << InNode("placeholder", "x", <<>>, s[1]),
       InNode("placeholder", "y", <<>>, s[2]),
       InNode("call_function", "torch.einsum",
              <<Lit("ij,jk->ik"), Ref("graph", 1), Ref("graph", 2)>>, s[3]),
       InNode("call_function", "torch.einsum",
              <<Lit("ik,ij->i"), Ref("graph", 3), Ref("graph", 1)>>, s[4]),
       InNode("output", "output", <<Ref("graph", 4)>>, s[5]) >>

unfusable(s) ==
    << InNode("placeholder", "x", <<>>, s[1]),
       InNode("placeholder", "y", <<>>, s[2]),
       InNode("call_function", "torch.einsum",
              <<Lit("ij,jk->ik"), Ref("graph", 1), Ref("graph", 2)>>, s[3]),
       InNode("call_function", "torch.einsum",
              <<Lit("ik,ij->i"), Ref("graph", 3), Ref("graph", 1)>>, s[4]),
       InNode("call_function", "operator.getitem",
              <<Ref("graph", 3), Lit("(:, 0)")>>, s[5]),
       InNode("call_function", "operator.add",
              <<Ref("graph", 4), Ref("graph", 5)>>, s[6]),
       InNode("output", "output", <<Ref("graph", 6)>>, s[7]) >>

\* an einsum of three operands, contracted in two steps
chain(s) ==
    << InNode("placeholder", "x", <<>>, s[1]),
       InNode("placeholder", "y", <<>>, s[2]),
       InNode("placeholder", "w", <<>>, s[3]),
       InNode("call_function", "torch.einsum",
              <<Lit("ij,jk,kl->il"), Ref("graph", 1), Ref("graph", 2), Ref("graph", 3)>>,
              s[4]),
       InNode("output", "output", <<Ref("graph", 4)>>, s[5]) >>

TestGraphs ==
    {einmatmul(s) : s \in Shapes(4)} \cup {fusable(s) : s \in Shapes(5)}
        \cup {unfusable(s) : s \in Shapes(7)} \cup {chain(s) : s \in Shapes(5)}

OperandLists(k) ==
    UNION {[1..m -> 1..(k - 1)] : m \in 1..MaxOperands}

EinsumArgs(ops) ==
    <<Lit("einstr")>> \o [j \in 1..Len(ops) |-> Ref("graph", ops[j])]

NodesAt(k) ==
    {InNode("placeholder", "x", <<>>, s) : s \in BOOLEAN}
        \cup {InNode("call_function", "torch.functional.einsum", EinsumArgs(ops), s) :
                ops \in OperandLists(k), s \in BOOLEAN}
        \cup {InNode("call_function", "operator.neg", <<Ref("graph", r)>>, s) :
                r \in 1..(k - 1), s \in BOOLEAN}

RECURSIVE GraphsOfLen(_)
GraphsOfLen(k) ==
    IF k = 0 THEN {<<>>}
    ELSE {Append(g, n) : g \in GraphsOfLen(k - 1), n \in NodesAt(k)}

InputGraphs == TestGraphs \cup UNION {GraphsOfLen(k) : k \in 1..MaxNodes}

(***************************************************************************)
(* fx.Graph.node_copy(node, lambda x: env[x.name])                         *)
(***************************************************************************)
\* variant: the argument keeps its position instead of going through env
MapArgSamePosition(a, e) == IF a.isNode THEN Ref("new_graph", a.ref) ELSE a

MapArg(a, e) == IF a.isNode THEN Ref("new_graph", e[a.ref]) ELSE a

node_copy(n, e) ==
    OutNode(n.op, n.target, [k \in 1..Len(n.args) |-> MapArg(n.args[k], e)])

\* env[x.name] finds every node-valued argument of n
Bound(n, e) == NodeArgs(n) \subseteq DOMAIN e

\* variant: the new node is not recorded
RecordSkip(e, k, v) == e

\* env[node.name] = new_node
Record(e, k, v) == [j \in DOMAIN e \cup {k} |-> IF j = k THEN v ELSE e[j]]

(***************************************************************************)
(* opt_einsum.contract_path: the contraction lists it may return for an    *)
(* einsum of n operands.  A step names the positions of the operands it    *)
(* pops (highest first), the call that contracts them and its index        *)
(* string.                                                                 *)
(***************************************************************************)
Step(inds, how, str) == [inds |-> inds, how |-> how, einsum_str |-> str]

Hows(m) == IF m = 2 THEN {"einsum", "tensordot", "tensordot_transpose"} ELSE {"einsum"}

RECURSIVE PairPaths(_)
PairPaths(c) ==
    IF c = 1 THEN {<<>>}
    ELSE {<<Step(<<ab[2], ab[1]>>, h, "pair")>> \o rest :
            ab \in {p \in (1..c) \X (1..c) : p[1] < p[2]},
            h \in Hows(2), rest \in PairPaths(c - 1)}

contract_path(einstr, n) ==
    IF n = 1 THEN {<<Step(<<1>>, "einsum", einstr)>>}
    ELSE IF n = 2 THEN {<<Step(<<2, 1>>, h, einstr)>> : h \in Hows(2)}
    ELSE PairPaths(n)

(***************************************************************************)
(* opt_einsum.contract._core_contract on proxies: every elementary call    *)
(* appends a node to the graph of its operands.  The result is the nodes   *)
(* appended and the node of the returned proxy.                            *)
(***************************************************************************)
RemoveAt(s, k) == SubSeq(s, 1, k - 1) \o SubSeq(s, k + 1, Len(s))

RECURSIVE Pop(_, _)
Pop(s, inds) == IF inds = <<>> THEN s ELSE Pop(RemoveAt(s, Head(inds)), Tail(inds))

Popped(s, inds) == [k \in 1..Len(inds) |-> Ref("new_graph", s[inds[k]])]

StepNodes(tmp, st, base) ==
    IF st.how = "einsum"
    THEN <<OutNode("call_function", "torch.einsum", <<Lit(st.einsum_str)>> \o tmp)>>
    ELSE IF st.how = "tensordot"
    THEN <<OutNode("call_function", "torch.tensordot", tmp \o <<Lit("axes")>>)>>
    ELSE <<OutNode("call_function", "torch.tensordot", tmp \o <<Lit("axes")>>),
           OutNode("call_method", "permute", <<Ref("new_graph", base + 1), Lit("perm")>>)>>

RECURSIVE core_contract(_, _, _, _)
core_contract(operands, contraction_list, base, acc) ==
    IF contraction_list = <<>>
    THEN [nodes |-> acc, out |-> operands[1]]
    ELSE LET st == Head(contraction_list)
             made == StepNodes(Popped(operands, st.inds), st, base + Len(acc))
         IN core_contract(Append(Pop(operands, st.inds), base + Len(acc) + Len(made)),
                          Tail(contraction_list), base, acc \o made)

\* variant: the first node of the expansion instead of the last
first_node(out, base) == base + 1

\* output_proxy.node
output_node(out, base) == out.out

\* [fx.Proxy(env[x.name]) ...][1:]
proxy_args(n, e) == [k \in 1..Len(Operands(n)) |-> e[Operands(n)[k].ref]]

(***************************************************************************)
(* fx.Graph.lint                                                           *)
(***************************************************************************)
FX_OPS == {"placeholder", "call_method", "call_module", "call_function",
           "get_attr", "output"}

lint(g) ==
    \A j \in 1..Len(g) :
        /\ g[j].op \in FX_OPS
        /\ \A k \in 1..Len(g[j].args) :
              g[j].args[k].isNode =>
                  /\ g[j].args[k].graph = "new_graph"
                  /\ g[j].args[k].ref \in 1..(j - 1)

(***************************************************************************)
(* The pass.                                                               *)
(***************************************************************************)
Init ==
    /\ graph \in InputGraphs
    /\ new_graph = <<>>
    /\ env = [j \in {} |-> 0]
    /\ node = 1
    /\ pc = "running"
    /\ error = "none"
    /\ result = <<>>
    /\ warned = <<>>
    /\ origin = <<>>
    /\ path_calls = {}
    /\ contract_calls = {}

InLoop == pc = "running" /\ node \in 1..Len(graph)

Raise(e) == pc' = "raised" /\ error' = e

\* variant: the copy is put at the head of the new graph
DefaultCopyAtHead ==
    /\ new_graph' = <<node_copy(graph[node], env)>> \o new_graph
    /\ env' = Record(env, node, 1)
    /\ origin' = <<node>> \o origin
    /\ node' = node + 1
    /\ UNCHANGED <<pc, error>>

\* lines 99-102: the default case
DefaultCopy ==
    IF Bound(graph[node], env)
    THEN /\ new_graph' = Append(new_graph, node_copy(graph[node], env))
         /\ env' = Record(env, node, Len(new_graph) + 1)
         /\ origin' = Append(origin, node)
         /\ node' = node + 1
         /\ UNCHANGED <<pc, error>>
    ELSE /\ Raise("KeyError")
         /\ UNCHANGED <<new_graph, env, origin, node>>

\* variant: the arguments of the input node are remapped in place
CopyNodeInPlace ==
    /\ InLoop
    /\ ~IsEinsum(graph[node])
    /\ DefaultCopy
    /\ graph' = [graph EXCEPT ![node].args = node_copy(graph[node], env).args]
    /\ UNCHANGED <<result, warned, path_calls, contract_calls>>

\* a node that is no einsum call-site
CopyNode ==
    /\ InLoop
    /\ ~IsEinsum(graph[node])
    /\ DefaultCopy
    /\ UNCHANGED <<graph, result, warned, path_calls, contract_calls>>

\* variant: the fallback without its warning
FallbackEinsumSilent ==
    /\ InLoop
    /\ IsEinsum(graph[node])
    /\ ~ShapesRead(graph, graph[node])
    /\ DefaultCopy
    /\ UNCHANGED <<graph, result, warned, path_calls, contract_calls>>

\* lines 60-68, then the default case
FallbackEinsum ==
    /\ InLoop
    /\ IsEinsum(graph[node])
    /\ ~ShapesRead(graph, graph[node])
    /\ warned' = Append(warned, node)
    /\ DefaultCopy
    /\ UNCHANGED <<graph, result, path_calls, contract_calls>>

\* lines 69-97
ExpandEinsum ==
    /\ InLoop
    /\ IsEinsum(graph[node])
    /\ ShapesRead(graph, graph[node])
    /\ path_calls' = path_calls \cup {node}
    /\ \E contraction_list \in
            contract_path(graph[node].args[1].lit, Len(Operands(graph[node]))) :
         IF Bound(graph[node], env)
         THEN LET out == core_contract(proxy_args(graph[node], env),
                                       contraction_list, Len(new_graph), <<>>)
              IN /\ new_graph' = new_graph \o out.nodes
                 /\ env' = Record(env, node, output_node(out, Len(new_graph)))
                 /\ origin' = origin \o [k \in 1..Len(out.nodes) |-> node]
                 /\ contract_calls' = contract_calls \cup {node}
                 /\ node' = node + 1
                 /\ UNCHANGED <<pc, error>>
         ELSE /\ Raise("KeyError")
              /\ UNCHANGED <<new_graph, env, origin, node, contract_calls>>
    /\ UNCHANGED <<graph, result, warned>>

\* variant: the failure is caught and the einsum copied
PathOptimizerCaught ==
    /\ InLoop
    /\ IsEinsum(graph[node])
    /\ ShapesRead(graph, graph[node])
    /\ path_calls' = path_calls \cup {node}
    /\ DefaultCopy
    /\ UNCHANGED <<graph, result, warned, contract_calls>>

\* line 72 raises
PathOptimizerFails ==
    /\ InLoop
    /\ IsEinsum(graph[node])
    /\ ShapesRead(graph, graph[node])
    /\ path_calls' = path_calls \cup {node}
    /\ Raise("contract_path")
    /\ UNCHANGED <<graph, new_graph, env, node, result, warned, origin, contract_calls>>

\* line 84 raises after appending some of its nodes
ExpanderFails ==
    /\ InLoop
    /\ IsEinsum(graph[node])
    /\ ShapesRead(graph, graph[node])
    /\ Bound(graph[node], env)
    /\ path_calls' = path_calls \cup {node}
    /\ contract_calls' = contract_calls \cup {node}
    /\ \E contraction_list \in
            contract_path(graph[node].args[1].lit, Len(Operands(graph[node]))) :
         LET out == core_contract(proxy_args(graph[node], env),
                                  contraction_list, Len(new_graph), <<>>)
         IN \E m \in 0..(Len(out.nodes) - 1) :
               /\ new_graph' = new_graph \o SubSeq(out.nodes, 1, m)
               /\ origin' = origin \o [k \in 1..m |-> node]
    /\ Raise("_core_contract")
    /\ UNCHANGED <<graph, env, node, result, warned>>

\* lines 104-105
Return ==
    /\ pc = "running"
    /\ node = Len(graph) + 1
    /\ IF lint(new_graph)
       THEN pc' = "returned" /\ result' = new_graph /\ UNCHANGED error
       ELSE Raise("lint") /\ UNCHANGED result
    /\ UNCHANGED <<graph, new_graph, env, node, warned, origin, path_calls, contract_calls>>

Next ==
    \/ CopyNode
    \/ FallbackEinsum
    \/ ExpandEinsum
    \/ PathOptimizerFails
    \/ ExpanderFails
    \/ Return

Spec == Init /\ [][Next]_vars

(***************************************************************************)
(* Vocabulary of the properties, read off the input graph.                 *)
(***************************************************************************)
Count(s, x) == Cardinality({k \in 1..Len(s) : s[k] = x})

EinsumSite(i) ==
    graph[i].op = "call_function"
        /\ graph[i].target \in {"torch.functional.einsum", "torch.einsum"}

LacksShape(i) ==
    \E k \in 2..Len(graph[i].args) :
        \/ ~graph[i].args[k].isNode
        \/ ~graph[graph[i].args[k].ref].shape

Optimized(i) == EinsumSite(i) /\ ~LacksShape(i)

NoShapes == \A i \in 1..Len(graph) : ~graph[i].shape

AllShapes == \A i \in 1..Len(graph) : graph[i].shape

Counterparts(i) == {j \in 1..Len(new_graph) : origin[j] = i}

Final(i) == CHOOSE j \in Counterparts(i) : \A k \in Counterparts(i) : k <= j

Uses(n, a) == \E k \in 1..Len(n.args) : n.args[k] = a

Consumers(i) == {c \in 1..Len(graph) : Uses(graph[c], Ref("graph", i))}

\* node j of the new graph is node i of the input with its arguments sent through env
IsCopyOf(j, i) ==
    /\ new_graph[j].op = graph[i].op
    /\ new_graph[j].target = graph[i].target
    /\ Len(new_graph[j].args) = Len(graph[i].args)
    /\ \A k \in 1..Len(graph[i].args) :
          IF graph[i].args[k].isNode
          THEN /\ graph[i].args[k].ref \in DOMAIN env
               /\ new_graph[j].args[k] = Ref("new_graph", env[graph[i].args[k].ref])
          ELSE new_graph[j].args[k] = graph[i].args[k]

\* node i of the result is node i of the input, references kept by position
SameAt(i) ==
    /\ result[i].op = graph[i].op
    /\ result[i].target = graph[i].target
    /\ Len(result[i].args) = Len(graph[i].args)
    /\ \A k \in 1..Len(graph[i].args) :
          IF graph[i].args[k].isNode
          THEN result[i].args[k] = Ref("new_graph", graph[i].args[k].ref)
          ELSE result[i].args[k] = graph[i].args[k]

(***************************************************************************)
(* C1: a graph without any shape annotation is returned node for node: the *)
(* pass does not raise, and the result has the same length, with the same  *)
(* op, target and literals at every position and every reference pointing  *)
(* at the copy of the node it pointed at.                                  *)
(***************************************************************************)
C1_NoShapesIdentity ==
    NoShapes =>
        /\ pc # "raised"
        /\ contract_calls = {}
        /\ pc = "returned" =>
              /\ Len(result) = Len(graph)
              /\ \A i \in 1..Len(graph) : SameAt(i)

C1_Witness ==
    /\ pc = "returned"
    /\ NoShapes
    /\ Len(graph) >= 5
    /\ \E i \in 1..Len(graph) : EinsumSite(i)

(***************************************************************************)
(* C2 as stated: in the fully annotated fusable graph the returned graph   *)
(* has no node for the intermediate ik-shaped result of the first einsum.  *)
(***************************************************************************)
FusableAnnotated == graph = fusable([k \in 1..5 |-> TRUE])

C2_IntermediateEliminated ==
    (pc = "returned" /\ FusableAnnotated) => Counterparts(3) = {}

(***************************************************************************)
(* C2 amended: in the fully annotated fusable graph the two einsums are    *)
(* expanded one after the other; the expansion of the first ends in the    *)
(* node env records for it, and the expansion of the second takes that     *)
(* node and the copy of x as operands.                                     *)
(***************************************************************************)
C2_ExpandedSeparately ==
    (pc = "returned" /\ FusableAnnotated) =>
        /\ contract_calls = {3, 4}
        /\ Counterparts(3) # {} /\ env[3] = Final(3)
        /\ Counterparts(4) # {} /\ env[4] = Final(4)
        /\ \A j \in Counterparts(3) : j < env[4]
        /\ \E j \in Counterparts(4) : Uses(result[j], Ref("new_graph", env[3]))
        /\ \E j \in Counterparts(4) : Uses(result[j], Ref("new_graph", env[1]))
        /\ \A j \in Counterparts(3) :
              /\ ~Uses(result[j], Ref("new_graph", env[4]))
              /\ \A k \in 1..Len(result[j].args) :
                    result[j].args[k].isNode =>
                        result[j].args[k].ref \in {env[1], env[2]} \cup Counterparts(3)

C2_Witness ==
    /\ pc = "returned"
    /\ FusableAnnotated
    /\ Cardinality(Counterparts(3)) = 2

(***************************************************************************)
(* C3: at return, every expanded einsum that has consumers is represented  *)
(* by the last node of its expansion, and every consumer refers to that    *)
(* node: a copied consumer at the same argument position, an expanded      *)
(* consumer from a node of its own expansion.                              *)
(***************************************************************************)
C3_LiveValueKept ==
    pc = "returned" =>
        \A e \in 1..Len(graph) :
            (Optimized(e) /\ Consumers(e) # {}) =>
                /\ Counterparts(e) # {}
                /\ env[e] = Final(e)
                /\ \A c \in Consumers(e) :
                      IF Optimized(c)
                      THEN \E j \in Counterparts(c) :
                              Uses(result[j], Ref("new_graph", Final(e)))
                      ELSE \A k \in 1..Len(graph[c].args) :
                              graph[c].args[k] = Ref("graph", e) =>
                                  result[env[c]].args[k] = Ref("new_graph", Final(e))

C3_Witness ==
    /\ pc = "returned"
    /\ graph = unfusable([k \in 1..7 |-> TRUE])
    /\ Cardinality(Counterparts(3)) = 2

(***************************************************************************)
(* C4 as stated: when the run is over, returned or raised, every einsum    *)
(* call-site lacking shape information has exactly one diagnostic and no   *)
(* other node has any.                                                     *)
(***************************************************************************)
C4_OnePerSiteOfGraph ==
    pc \in {"returned", "raised"} =>
        \A i \in 1..Len(graph) :
            Count(warned, i) = IF EinsumSite(i) /\ LacksShape(i) THEN 1 ELSE 0

(***************************************************************************)
(* C4 amended: exactly one diagnostic for each einsum call-site lacking    *)
(* shape information that the pass has reached, none for any other node;   *)
(* a run that returns has reached every node, and a graph without shape    *)
(* annotations always returns with as many diagnostics as einsum sites.    *)
(***************************************************************************)
C4_OnePerSiteReached ==
    /\ \A i \in 1..Len(graph) :
          Count(warned, i) =
              IF EinsumSite(i) /\ LacksShape(i) /\ i < node THEN 1 ELSE 0
    /\ Len(warned) = Cardinality({i \in 1..Len(graph) : Count(warned, i) > 0})
    /\ pc = "returned" => node = Len(graph) + 1
    /\ NoShapes =>
          /\ pc # "raised"
          /\ pc = "returned" =>
                Len(warned) = Cardinality({i \in 1..Len(graph) : EinsumSite(i)})

C4_Witness ==
    /\ pc = "raised"
    /\ \E i \in 1..Len(graph) : i > node /\ EinsumSite(i) /\ LacksShape(i)

(***************************************************************************)
(* C5: every node that is not an expanded einsum and that the pass has     *)
(* processed has exactly one counterpart, the node env records for it,     *)
(* with the same op, target and literals, and with every reference sent    *)
(* through env: to the one copy of a copied operand, to the last node of   *)
(* the expansion of an expanded operand.  At return every node has been    *)
(* processed.                                                              *)
(***************************************************************************)
C5_CopiedVerbatim ==
    /\ pc = "returned" => (node = Len(graph) + 1 /\ result = new_graph)
    /\ \A i \in 1..Len(graph) :
          (i < node /\ ~Optimized(i)) =>
              /\ i \in DOMAIN env
              /\ Counterparts(i) = {env[i]}
              /\ IsCopyOf(env[i], i)
              /\ \A a \in NodeArgs(graph[i]) :
                    /\ Counterparts(a) # {}
                    /\ env[a] = Final(a)
                    /\ ~Optimized(a) => Counterparts(a) = {env[a]}

C5_Witness ==
    /\ pc = "returned"
    /\ \E i \in 1..Len(graph) :
          /\ ~Optimized(i)
          /\ \E a \in NodeArgs(graph[i]) :
                Optimized(a) /\ Cardinality(Counterparts(a)) >= 2
          /\ \E a \in NodeArgs(graph[i]) : ~Optimized(a)

(***************************************************************************)
(* C6: the counterparts of the non-einsum nodes are in the order of the    *)
(* non-einsum nodes of the input, whatever the expansions put between.     *)
(***************************************************************************)
C6_OrderKept ==
    pc = "returned" =>
        \A i, j \in 1..Len(graph) :
            (i < j /\ ~EinsumSite(i) /\ ~EinsumSite(j)) => env[i] < env[j]

C6_Witness ==
    /\ pc = "returned"
    /\ \E i, j \in 1..Len(graph) :
          /\ i < j /\ ~EinsumSite(i) /\ ~EinsumSite(j)
          /\ env[j] - env[i] >= 4
          /\ j - i = 3

(***************************************************************************)
(* C7: a failure of the Path Optimizer, of the Contraction Expander or of  *)
(* the final validation ends the pass with that error: nothing is          *)
(* returned, the failing einsum gets no copy, no entry of env and no       *)
(* diagnostic, no later node is processed and no step follows; while the   *)
(* pass has not raised, every call of the Path Optimizer was followed by   *)
(* the expansion.                                                          *)
(***************************************************************************)
C7_Raised ==
    /\ pc = "raised" =>
          /\ result = <<>>
          /\ error \in {"contract_path", "_core_contract", "lint"}
          /\ DOMAIN env = 1..(node - 1)
          /\ Count(warned, node) = 0
          /\ error = "contract_path" => (node \in path_calls /\ node \notin contract_calls)
          /\ error = "_core_contract" => node \in contract_calls
          /\ error \in {"contract_path", "_core_contract"} =>
                /\ Optimized(node)
                /\ \A j \in Counterparts(node) : j \notin {env[i] : i \in DOMAIN env}
    /\ pc # "raised" => (error = "none" /\ path_calls = contract_calls)
    /\ pc # "returned" => result = <<>>

C7_ErrorsPropagate ==
    /\ []C7_Raised
    /\ [][pc = "running"]_vars
    /\ [][pc' = "raised" =>
            (env' = env /\ warned' = warned /\ node' = node /\ result' = result)]_vars

C7_Witness ==
    /\ pc = "raised"
    /\ error = "_core_contract"
    /\ Counterparts(node) # {}
    /\ warned # <<>>

(***************************************************************************)
(* C8: no step of the pass changes the input graph, and the new graph only *)
(* grows at its end.                                                       *)
(***************************************************************************)
C8_InputUntouched ==
    [][/\ graph' = graph
       /\ Len(new_graph') >= Len(new_graph)
       /\ SubSeq(new_graph', 1, Len(new_graph)) = new_graph]_vars

C8_Witness ==
    /\ pc = "returned"
    /\ warned # <<>>
    /\ contract_calls # {}
    /\ \E i \in 1..Len(graph) : ~EinsumSite(i) /\ NodeArgs(graph[i]) # {}

(***************************************************************************)
(* C9: an einsum call-site with an operand lacking a shape never reaches   *)
(* the Path Optimizer or the Contraction Expander and is copied as an      *)
(* ordinary node; an einsum call-site whose operands are all annotated is  *)
(* expanded all the same.                                                  *)
(***************************************************************************)
C9_AllOrNothing ==
    \A i \in 1..Len(graph) :
        /\ (EinsumSite(i) /\ LacksShape(i)) =>
              /\ i \notin path_calls
              /\ i \notin contract_calls
              /\ i < node => (Counterparts(i) = {env[i]} /\ IsCopyOf(env[i], i))
        /\ (Optimized(i) /\ i < node) =>
              /\ i \in path_calls
              /\ i \in contract_calls
              /\ Counterparts(i) # {}
              /\ env[i] = Final(i)
              /\ Count(warned, i) = 0

PartlyAnnotated(i) ==
    /\ EinsumSite(i)
    /\ LacksShape(i)
    /\ \E k \in 2..Len(graph[i].args) :
          graph[i].args[k].isNode /\ graph[graph[i].args[k].ref].shape

C9_Witness ==
    /\ pc = "returned"
    /\ \E i, j \in 1..Len(graph) : PartlyAnnotated(i) /\ Optimized(j)

(***************************************************************************)
(* C10: at every step every value of env is a node of the new graph, every *)
(* node of the new graph refers only to earlier nodes of the new graph,    *)
(* the arguments of the node about to be processed are all in env, and     *)
(* neither the lookup nor the final validation ever fails.                 *)
(***************************************************************************)
C10_References ==
    /\ \A i \in DOMAIN env : env[i] \in 1..Len(new_graph)
    /\ DOMAIN env \subseteq 1..Len(graph)
    /\ \A j \in 1..Len(new_graph) :
          \A k \in 1..Len(new_graph[j].args) :
              new_graph[j].args[k].isNode =>
                  /\ new_graph[j].args[k].graph = "new_graph"
                  /\ new_graph[j].args[k].ref \in 1..(j - 1)
    /\ (pc = "running" /\ node \in 1..Len(graph)) =>
          \A k \in 1..Len(graph[node].args) :
              graph[node].args[k].isNode => graph[node].args[k].ref \in DOMAIN env
    /\ error \notin {"KeyError", "lint"}

C10_Witness ==
    /\ pc = "returned"
    /\ \E e \in 1..Len(graph) :
          /\ Optimized(e)
          /\ Cardinality(Counterparts(e)) >= 2
          /\ \E c \in Consumers(e) : Optimized(c)
          /\ \E c \in Consumers(e) : ~Optimized(c)

====
